---------------------------- MODULE Spec2Model ----------------------------
(***************************************************************************)
(* Model of the ART network of src/noise_art.py (class ART: __init__ and   *)
(* learn; src/unnamed/part_000 holds the same class).                      *)
(*                                                                         *)
(* Numbers.  The weights are floats drawn from [0,1) and multiplied by     *)
(* the inputs.  Every number of the network (a weight, an input entry, an  *)
(* activation, a match ratio, rho) is modelled exactly, as a fraction      *)
(* <<num, den>> in lowest terms with num >= 0 and den > 0; rounding is not *)
(* modelled.  NaN (0/0, what numpy yields for a zero-sum input) is the     *)
(* pair <<0, 0>>; every comparison with NaN is false, as in IEEE 754.      *)
(* Indices are 0-based as in the code.                                     *)
(***************************************************************************)
EXTENDS Integers, FiniteSets, Sequences, TLC

\* ------------------------------------------------------------------ bounds
\* n: size of the input (ART.__init__ parameter).
N == 2
\* m: maximum number of internal units (ART.__init__ parameter).
M == 2
\* Resolution of the initial random weights: multiples of 1/Q in (0,1).
Q == 4
\* Number of learn calls explored on one network.
MaxCalls == 3

\* Seeds of the initial random weights.
Seeds == {0, 1}
\* Vigilance values given to the constructor: the default and the demo's.
Rhos == {<<1, 2>>, <<19, 20>>}

VARIABLES
    F1,      \* self.F1 : comparison layer
    F2,      \* self.F2 : recognition layer, fractions
    Wf,      \* self.Wf : Wf[i][k], fractions, m x n
    Wb,      \* self.Wb : Wb[k][i], fractions, n x m
    rho,     \* self.rho : fraction
    active,  \* self.active
    X,       \* argument of the last learn call
    I,       \* the ranking I computed by the last learn call
    result,  \* what the last learn call returned or raised
    pre,     \* Wb, Wf, rho, active and result when the last call began
    calls    \* number of learn calls made

vars == <<F1, F2, Wf, Wb, rho, active, X, I, result, pre, calls>>

\* --------------------------------------------------------------- fractions
RECURSIVE GCD(_, _)
GCD(a, b) == IF b = 0 THEN a ELSE GCD(b, a % b)

NaN == <<0, 0>>

\* a / b for a >= 0, b >= 0, in lowest terms; x/0 is NaN (only 0/0 arises).
Frac(a, b) ==
    IF b = 0 THEN NaN
    ELSE LET g == GCD(a, b) IN <<a \div g, b \div g>>

Zero == Frac(0, 1)
One == Frac(1, 1)
Half == Frac(1, 2)

FAdd(p, q) ==
    IF p = NaN \/ q = NaN THEN NaN
    ELSE LET g == GCD(p[2], q[2])
         IN  Frac(p[1] * (q[2] \div g) + q[1] * (p[2] \div g), p[2] * (q[2] \div g))

FMul(p, q) == Frac(p[1] * q[1], p[2] * q[2])

FDiv(p, q) == Frac(p[1] * q[2], p[2] * q[1])

\* p >= q on floats: false when either side is NaN.
FGeq(p, q) == p # NaN /\ q # NaN /\ p[1] * q[2] >= q[1] * p[2]

FGt(p, q) == p # NaN /\ q # NaN /\ p[1] * q[2] > q[1] * p[2]

\* ------------------------------------------------------------ numpy pieces
\* v.sum() over v[0..len-1].
RECURSIVE FSum(_, _)
FSum(v, len) == IF len = 0 THEN Zero ELSE FAdd(v[len - 1], FSum(v, len - 1))

\* Length of a vector (a function on 0..len-1).
Len0(v) == Cardinality(DOMAIN v)

\* self.Wb[:,i]
Column(W, i) == [k \in 0..(N - 1) |-> W[k][i]]

\* self.Wb[:,i] * X, element-wise.
Times(col, x) == [k \in 0..(N - 1) |-> FMul(col[k], x[k])]

\* np.dot(self.Wf, X)
Dot(W, x) == [i \in 0..(M - 1) |-> FSum(Times(W[i], x), N)]

\* Mutation of MatchRatio: the overlap is divided by the prototype's sum.
MatchRatioByColumn(W, x, i) ==
    FDiv(FSum(Times(Column(W, i), x), N), FSum(Column(W, i), N))

\* d = (self.Wb[:,i]*X).sum()/X.sum()
MatchRatio(W, x, i) == FDiv(FSum(Times(Column(W, i), x), N), FSum(x, N))

\* self.Wb[:,i]/(0.5+self.Wb[:,i].sum())
Normalize(col) == [k \in 0..(N - 1) |-> FDiv(col[k], FAdd(Half, FSum(col, N)))]

\* np.argsort(F2[:a])[::-1]: the orders of 0..a-1 by descending activation.
\* The default sort kind is not stable, so equal activations may come in
\* either order.
ArgsortDesc(f, a) ==
    { p \in [0..(a - 1) -> 0..(a - 1)] :
        /\ \A u, v \in 0..(a - 1) : u # v => p[u] # p[v]
        /\ \A u \in 0..(a - 2) : FGeq(f[p[u]], f[p[u + 1]]) }

\* ------------------------------------------------------------ construction
\* np.random.random: a deterministic draw in (0,1) for a seed.
Rand(s, a, b) == Frac(1 + ((s + 2 * a + b + a * b) % (Q - 1)), Q)

NoResult == [tag |-> "init", k |-> -1, Z |-> <<>>]

Init ==
    \E s \in Seeds, r \in Rhos :
        /\ F1 = [k \in 0..(N - 1) |-> One]
        /\ F2 = [i \in 0..(M - 1) |-> One]
        /\ Wf = [i \in 0..(M - 1) |-> [k \in 0..(N - 1) |-> Rand(s + 1, i, k)]]
        /\ Wb = [k \in 0..(N - 1) |-> [i \in 0..(M - 1) |-> Rand(s, k, i)]]
        /\ rho = r
        /\ active = 0
        /\ X = <<>>
        /\ I = <<>>
        /\ result = NoResult
        /\ pre = [Wb |-> Wb, Wf |-> Wf, rho |-> r, active |-> 0, result |-> NoResult]
        /\ calls = 0

\* ------------------------------------------------------------------- learn
\* The 0/1 vectors of length n (the reference use: flattened letters).
Binary == [0..(N - 1) -> {Zero, One}]

\* A vector whose entries are multiples of 1/Q.
OnGrid(v) == \A k \in DOMAIN v : Q % v[k][2] = 0

\* The inputs tried: every 0/1 vector of length n, the vector of twos
\* (non-negative, not binary), one vector that is too long, and the
\* prototype the previous call returned, while it is on the grid.
Inputs ==
    Binary
        \cup { [k \in 0..(N - 1) |-> Frac(2, 1)] }
        \cup { [k \in 0..N |-> One] }
        \cup (IF result.tag = "ok" /\ OnGrid(result.Z) THEN {result.Z} ELSE {})

\* Mutation of Vigilant: a strict comparison.
VigilantStrict(d, r) == FGt(d, r)

\* if d >= self.rho
Vigilant(d, r) == FGeq(d, r)

\* Mutation of FirstPass: the loop keeps going and the last passing
\* candidate wins.
LastPass(W, x, r, order, a) ==
    LET ok == { u \in 0..(a - 1) : Vigilant(MatchRatio(W, x, order[u]), r) }
    IN  IF ok = {} THEN -1
        ELSE CHOOSE u \in ok : \A v \in ok : u >= v

\* The for loop: the first position of the ranking whose category passes
\* the vigilance test, or -1 when the loop runs to its end.
FirstPass(W, x, r, order, a) ==
    LET ok == { u \in 0..(a - 1) : Vigilant(MatchRatio(W, x, order[u]), r) }
    IN  IF ok = {} THEN -1
        ELSE CHOOSE u \in ok : \A v \in ok : u <= v

\* if self.active < self.F2.size
HasCapacity(a) == a < M

\* Mutation of NewActive: the increment forgotten.
NewActiveSame(a) == a

\* Mutation of NewActive: a decrement for the increment.
NewActiveDec(a) == a - 1

\* self.active += 1
NewActive(a) == a + 1

\* Mutation of UpdateWb: every column is masked, not only column i.
UpdateWbAll(W, x, i) ==
    [k \in 0..(N - 1) |-> [j \in 0..(M - 1) |-> FMul(W[k][j], x[k])]]

\* Mutation of UpdateWb: the prototype is set to the input.
UpdateWbAssign(W, x, i) ==
    [k \in 0..(N - 1) |-> [j \in 0..(M - 1) |-> IF j = i THEN x[k] ELSE W[k][j]]]

\* Learn data: self.Wb[:,i] *= X
UpdateWb(W, x, i) ==
    [k \in 0..(N - 1) |-> [j \in 0..(M - 1) |-> IF j = i THEN FMul(W[k][j], x[k]) ELSE W[k][j]]]

\* Mutation of UpdateWf: the renormalisation forgotten.
UpdateWfNone(V, W, x, i) == V

\* self.Wf[i,:] = self.Wb[:,i]/(0.5+self.Wb[:,i].sum()), W being Wb after
\* the update of column i.
UpdateWf(V, W, x, i) ==
    [j \in 0..(M - 1) |-> IF j = i THEN Normalize(Column(W, i)) ELSE V[j]]

learn(x) ==
    /\ calls < MaxCalls
    /\ calls' = calls + 1
    /\ X' = x
    /\ pre' = [Wb |-> Wb, Wf |-> Wf, rho |-> rho, active |-> active, result |-> result]
    /\ UNCHANGED <<F1, rho>>
    /\ IF Len0(x) # N
       THEN \* np.dot raises ValueError before anything is assigned
            /\ result' = [tag |-> "ValueError", k |-> -1, Z |-> <<>>]
            /\ UNCHANGED <<F2, Wf, Wb, active, I>>
       ELSE /\ F2' = Dot(Wf, x)
            /\ \E order \in ArgsortDesc(F2', active) :
                 LET u == FirstPass(Wb, x, rho, order, active) IN
                 /\ I' = order
                 /\ IF u # -1
                    THEN LET i == order[u] IN
                         /\ Wb' = UpdateWb(Wb, x, i)
                         /\ Wf' = UpdateWf(Wf, Wb', x, i)
                         /\ active' = active
                         /\ result' = [tag |-> "ok", k |-> i, Z |-> Column(Wb', i)]
                    ELSE IF HasCapacity(active)
                    THEN LET i == active IN
                         /\ Wb' = UpdateWb(Wb, x, i)
                         /\ Wf' = UpdateWf(Wf, Wb', x, i)
                         /\ active' = NewActive(active)
                         /\ result' = [tag |-> "ok", k |-> i, Z |-> Column(Wb', i)]
                    ELSE /\ result' = [tag |-> "None", k |-> -1, Z |-> <<>>]
                         /\ UNCHANGED <<Wf, Wb, active>>

Next == \E x \in Inputs : learn(x)

Spec == Init /\ [][Next]_vars

\* ------------------------------------------------------------------ claims
\* The state is the state right after the last learn call; pre is the state
\* right before it.

\* The last call got past np.dot: X has length n.
Called == calls > 0 /\ Len0(X) = N

\* Category i passed the vigilance test of the last call, on the weights as
\* they were when the call began: sum(Wb[:,i]*X) >= rho * sum(X), sum(X) # 0.
Passed(i) ==
    /\ FSum(X, N) # Zero
    /\ FGeq(FSum([k \in 0..(N - 1) |-> FMul(pre.Wb[k][i], X[k])], N),
            FMul(pre.rho, FSum(X, N)))

\* No category committed before the last call passed its vigilance test.
NonePassed == \A i \in 0..(pre.active - 1) : ~Passed(i)

\* The last call returned through the resonance branch.
Resonated == Called /\ result.tag = "ok" /\ result.k < pre.active

\* Column j of Wb or row j of Wf differs from what it was before the call.
Touched(j) == Column(Wb, j) # Column(pre.Wb, j) \/ Wf[j] # pre.Wf[j]

\* C1: active starts at 0, never decreases from one learn call to the next,
\* and 0 <= active <= m in every reachable state.
C1_ActiveBounded ==
    /\ calls = 0 => active = 0
    /\ pre.active <= active
    /\ 0 <= active
    /\ active <= M

\* C1 witness: active has grown to m and a further call has left it there.
C1_Witness == calls > 0 /\ pre.active = M /\ active = M

\* C2: whenever learn returns a category index i, 0 <= i < active <= m in
\* the state right after the call.
C2_IndexInRange ==
    result.tag = "ok" => 0 <= result.k /\ result.k < active /\ active <= M

\* C2 witness: the new-category branch returns the last index, m - 1.
C2_Witness ==
    result.tag = "ok" /\ result.k = pre.active /\ result.k = M - 1 /\ active = M

\* C3: if active = m before a learn call and no committed category has match
\* ratio >= rho, the call returns (None, None) and leaves Wb, Wf and active
\* as they were.
C3_ExhaustionReadOnly ==
    (Called /\ pre.active = M /\ NonePassed)
        => /\ result.tag = "None"
           /\ Wb = pre.Wb
           /\ Wf = pre.Wf
           /\ active = pre.active

\* C3 witness: a valid input met a full network in which nothing matched.
C3_Witness ==
    /\ Called /\ FSum(X, N) # Zero
    /\ pre.active = M /\ NonePassed
    /\ result.tag = "None"

\* C4: when learn returns via resonance, the returned index i was committed
\* before the call and has match ratio >= rho; the ranking is by descending
\* activation F2 = Wf.X over the committed categories; every category ranked
\* before i, and every category of strictly higher activation, has match
\* ratio < rho; no category other than i is updated.
C4_FirstPassingWins ==
    Resonated =>
        LET i == result.k
            a == pre.active
            pos == CHOOSE u \in 0..(a - 1) : I[u] = i
        IN  /\ 0 <= i /\ i < a
            /\ Passed(i)
            /\ F2 = Dot(pre.Wf, X)
            /\ DOMAIN I = 0..(a - 1)
            /\ \A j \in 0..(a - 1) : \E u \in 0..(a - 1) : I[u] = j
            /\ \A u \in 0..(a - 2) : FGeq(F2[I[u]], F2[I[u + 1]])
            /\ \A u \in 0..(pos - 1) : ~Passed(I[u])
            /\ \A j \in 0..(a - 1) : FGt(F2[j], F2[i]) => ~Passed(j)
            /\ \A j \in 0..(M - 1) : j # i => ~Touched(j)

\* C4 witness: the winner is ranked second; the category of higher
\* activation failed the vigilance test.
C4_Witness ==
    /\ Resonated
    /\ \E j \in 0..(pre.active - 1) : FGt(F2[j], F2[result.k]) /\ ~Passed(j)

\* C5: a learn call commits a new category if and only if no committed
\* category has match ratio >= rho and active < m; the new category is then
\* written at the index active had before the call, active grows by exactly
\* 1, and that index is returned.
C5_CommitIff ==
    Called =>
        LET a == pre.active
            room == a < M /\ NonePassed
        IN  /\ room <=> active # a
            /\ room => /\ active = a + 1
                       /\ result.tag = "ok"
                       /\ result.k = a
                       /\ Column(Wb, a) = Times(Column(pre.Wb, a), X)
                       /\ result.Z = Column(Wb, a)
            /\ ~room => (result.tag = "ok" => result.k < a)

\* C5 witness: with a category already committed and not matching a valid
\* input, a second one is committed.
C5_Witness ==
    /\ Called /\ FSum(X, N) # Zero
    /\ pre.active >= 1 /\ NonePassed
    /\ active = pre.active + 1 /\ result.k = pre.active

\* C6: for every committed category i, Wf[i,k] * (0.5 + sum(Wb[:,i])) =
\* Wb[k,i] for all k; and learn changes no Wf row but the one of the index
\* it returns.
C6_WfNormalized ==
    /\ \A i \in 0..(active - 1) : \A k \in 0..(N - 1) :
         FMul(Wf[i][k], FAdd(Half, FSum(Column(Wb, i), N))) = Wb[k][i]
    /\ \A j \in 0..(M - 1) :
         Wf[j] # pre.Wf[j] => result.tag = "ok" /\ result.k = j

\* C6 witness: a resonance has re-derived the row of a committed category.
C6_Witness ==
    /\ Resonated
    /\ Wf[result.k] # pre.Wf[result.k]
    /\ Column(Wb, result.k) # Column(pre.Wb, result.k)

\* C7: a learn call changes active by 0 or +1, leaves rho alone, and changes
\* no Wb column and no Wf row other than those of the index it returns.
C7_Frame ==
    /\ active - pre.active \in {0, 1}
    /\ rho = pre.rho
    /\ \A j \in 0..(M - 1) : Touched(j) => result.tag = "ok" /\ result.k = j

\* C7 witness: with two categories committed, a call has rewritten one.
C7_Witness ==
    /\ Called /\ pre.active >= 2
    /\ result.tag = "ok" /\ Touched(result.k)

\* C8: when learn has just written category i, calling learn again with X
\* equal to the prototype Wb[:,i] it returned resonates with category i and
\* returns i again, creating no category.  (The prototype is taken to be a
\* valid input, sum(X) # 0.)
C8_Idempotent ==
    (Called /\ pre.result.tag = "ok" /\ X = pre.result.Z /\ FSum(X, N) # Zero)
        => /\ result.tag = "ok"
           /\ result.k = pre.result.k
           /\ active = pre.active

\* C9: a learn call whose input has a length other than n, or sums to 0,
\* fails with an error and leaves Wb, Wf and active unchanged.
C9_InvalidInputRejected ==
    (calls > 0 /\ (Len0(X) # N \/ FSum(X, N) = Zero))
        => /\ result.tag = "ValueError"
           /\ Wb = pre.Wb
           /\ Wf = pre.Wf
           /\ active = pre.active

\* C10: a learn call with a 0/1 input leaves every element of Wb, and so the
\* sum of every Wb column, less than or equal to what it was, and leaves an
\* element of a committed prototype that was 0 at 0.
C10_Shrinkage ==
    (Called /\ X \in Binary) =>
        /\ \A k \in 0..(N - 1) : \A j \in 0..(M - 1) :
             FGeq(pre.Wb[k][j], Wb[k][j])
        /\ \A j \in 0..(M - 1) :
             FGeq(FSum(Column(pre.Wb, j), N), FSum(Column(Wb, j), N))
        /\ \A k \in 0..(N - 1) : \A j \in 0..(pre.active - 1) :
             pre.Wb[k][j] = Zero => Wb[k][j] = Zero

\* C10 witness: a resonance with a 0/1 input has made an element of the
\* winner's prototype strictly smaller.
C10_Witness ==
    /\ Resonated /\ X \in Binary
    /\ \E k \in 0..(N - 1) : FGt(pre.Wb[k][result.k], Wb[k][result.k])

=============================================================================
